---- MODULE Spec2Model ----
(***************************************************************************)
(* SentinelGuard backend (src/SentinelGuard/backend/index.js): an alert    *)
(* intake service with a JSON file store and a fixed-window rate limiter   *)
(* keyed on the hashed client address.                                     *)
(*                                                                         *)
(* Modelling conventions                                                   *)
(*  - A JSON / JavaScript value of a field is a pair <<typeof, payload>>.   *)
(*  - An element of the stored array is a record of the four fields the    *)
(*    program looks at (type, message, severity, time); a field that is     *)
(*    absent is Undef, so the number 1 or the object {} inside the array    *)
(*    both read as the element with four absent fields.                     *)
(*  - The backing file is [kind, isArray, items]: kind tells whether the    *)
(*    data directory / the file exist and whether the text parses as JSON.  *)
(*  - The clock is Date.now() relative to process start. It never goes      *)
(*    back and advances in steps of ClockSteps.                             *)
(*  - An fs call may fail (EACCES, EMFILE, ...): every handler takes the    *)
(*    outcome of each of its fs calls as an input. A failing write fails    *)
(*    before it changes the file.                                           *)
(*  - req.body is the object express.json() parsed.                         *)
(***************************************************************************)
EXTENDS Integers, Sequences, FiniteSets, TLC

VARIABLES
  now,           \* the server clock, ms
  rateLimitMap,  \* index.js:68  hashed ip -> [count, start]
  file,          \* data/alerts.json on disk
  pc,            \* "start" before initAlertsFile() ran, "listening" after
  initLog,       \* what initAlertsFile() wrote to the console
  res,           \* the response to the last request
  watched,       \* the client whose admissions admitLog records
  admitLog,      \* time -> number of requests of `watched` let through at that
                 \* time, kept for the last RATE_LIMIT_WINDOW_MS
  rateLimitMap2, \* index.js:68 in a second server process (or a second run)
  res2,          \* the response to the last request of the second process
  inflight       \* process -> the request it is handling between its
                 \* readFileSync and its writeFileSync, index.js:149-152

vars == <<now, rateLimitMap, file, pc, initLog, res, watched, admitLog,
          rateLimitMap2, res2, inflight>>

----------------------------------------------------------------------------
(* Program constants *)

RATE_LIMIT_WINDOW_MS == 60000
MAX_REQUESTS_PER_WINDOW == 20

(* Bounds of the model *)

MaxTicks == 2      \* the clock advances at most this many times (SpecRL)
MaxServiceTicks == 1  \* the same, with start-up and the store (Spec)
MaxPairTicks == 1     \* the same, with two runs side by side (SpecPair)
MaxRaceRequests == 2  \* requests one process handles (SpecRace)
MaxAlerts == 2     \* submissions are made while the file holds fewer elements

ClockSteps == {RATE_LIMIT_WINDOW_MS, RATE_LIMIT_WINDOW_MS + 1}

Times == {k * RATE_LIMIT_WINDOW_MS + j : k \in 0..MaxTicks, j \in 0..MaxTicks}

Identities == {"10.0.0.1", "10.0.0.2"}

----------------------------------------------------------------------------
(* JavaScript values *)

Undef == <<"undefined", "">>
Str(s) == <<"string", s>>
Num(s) == <<"number", s>>
TypeOf(v) == v[1]

\* new Date().toISOString(): a string that names the instant
toISOString(t) == Str(ToString(t))

----------------------------------------------------------------------------
(* Rate limiter *)

hashIp_oneKey(ip) == "sha256/"

hashIp(ip) == "sha256/" \o ip

cleanupRateLimitMap_ge(m, t) ==
  [k \in {j \in DOMAIN m : ~(t - m[j].start >= RATE_LIMIT_WINDOW_MS)} |-> m[k]]

cleanupRateLimitMap_none(m, t) == m

cleanupRateLimitMap(m, t) ==
  [k \in {j \in DOMAIN m : ~(t - m[j].start > RATE_LIMIT_WINDOW_MS)} |-> m[k]]

rateLimiter_offByOne(m, ip, t) ==
  LET key == hashIp(ip)
      c == cleanupRateLimitMap(m, t)
      fresh == [k \in DOMAIN c \cup {key} |->
                  IF k = key THEN [count |-> 1, start |-> t] ELSE c[k]]
  IN  IF key \notin DOMAIN c
        THEN [map |-> fresh, allowed |-> TRUE, branch |-> "new"]
      ELSE IF t - c[key].start > RATE_LIMIT_WINDOW_MS
        THEN [map |-> fresh, allowed |-> TRUE, branch |-> "reset"]
      ELSE IF c[key].count > MAX_REQUESTS_PER_WINDOW
        THEN [map |-> c, allowed |-> FALSE, branch |-> "deny"]
      ELSE [map |-> [c EXCEPT ![key].count = @ + 1],
            allowed |-> TRUE, branch |-> "inc"]

rateLimiter_denyRestarts(m, ip, t) ==
  LET key == hashIp(ip)
      c == cleanupRateLimitMap(m, t)
      fresh == [k \in DOMAIN c \cup {key} |->
                  IF k = key THEN [count |-> 1, start |-> t] ELSE c[k]]
  IN  IF key \notin DOMAIN c
        THEN [map |-> fresh, allowed |-> TRUE, branch |-> "new"]
      ELSE IF t - c[key].start > RATE_LIMIT_WINDOW_MS
        THEN [map |-> fresh, allowed |-> TRUE, branch |-> "reset"]
      ELSE IF c[key].count >= MAX_REQUESTS_PER_WINDOW
        THEN [map |-> [c EXCEPT ![key].start = t],
              allowed |-> FALSE, branch |-> "deny"]
      ELSE [map |-> [c EXCEPT ![key].count = @ + 1],
            allowed |-> TRUE, branch |-> "inc"]

rateLimiter_neverResets(m, ip, t) ==
  LET key == hashIp(ip)
  IN  IF key \notin DOMAIN m
        THEN [map |-> [k \in DOMAIN m \cup {key} |->
                         IF k = key THEN [count |-> 1, start |-> t] ELSE m[k]],
              allowed |-> TRUE, branch |-> "new"]
      ELSE IF m[key].count >= MAX_REQUESTS_PER_WINDOW
        THEN [map |-> m, allowed |-> FALSE, branch |-> "deny"]
      ELSE [map |-> [m EXCEPT ![key].count = @ + 1],
            allowed |-> TRUE, branch |-> "inc"]

rateLimiter(m, ip, t) ==
  LET key == hashIp(ip)
      c == cleanupRateLimitMap(m, t)
      fresh == [k \in DOMAIN c \cup {key} |->
                  IF k = key THEN [count |-> 1, start |-> t] ELSE c[k]]
  IN  IF key \notin DOMAIN c
        THEN [map |-> fresh, allowed |-> TRUE, branch |-> "new"]
      ELSE IF t - c[key].start > RATE_LIMIT_WINDOW_MS
        THEN [map |-> fresh, allowed |-> TRUE, branch |-> "reset"]
      ELSE IF c[key].count >= MAX_REQUESTS_PER_WINDOW
        THEN [map |-> c, allowed |-> FALSE, branch |-> "deny"]
      ELSE [map |-> [c EXCEPT ![key].count = @ + 1],
            allowed |-> TRUE, branch |-> "inc"]

----------------------------------------------------------------------------
(* The file *)

JsonArray(items) == [kind |-> "json", isArray |-> TRUE, items |-> items]
JsonOther == [kind |-> "json", isArray |-> FALSE, items |-> <<>>]
NoDir == [kind |-> "nodir", isArray |-> FALSE, items |-> <<>>]
Absent == [kind |-> "absent", isArray |-> FALSE, items |-> <<>>]
Garbage == [kind |-> "garbage", isArray |-> FALSE, items |-> <<>>]

\* JSON.stringify(alerts, null, 2): the text of the value; a property whose
\* value is undefined is left out, which is how an absent field reads
JSONstringify(v) ==
  [kind |-> "json", isArray |-> v.isArray,
   items |-> [i \in 1..Len(v.items) |-> v.items[i]]]

\* JSON.parse(data): throws on text that is not JSON
JSONparse(f) ==
  IF f.kind = "json"
    THEN [ok |-> TRUE, value |-> [kind |-> "json", isArray |-> f.isArray,
                                  items |-> f.items]]
    ELSE [ok |-> FALSE, value |-> JsonOther]

WarnNotArray == "alerts.json is not an array. Reinitializing to empty array."
ErrInit == "Failed to initialize alerts file"
ErrRecover == "Failed to recover alerts file"
ErrRead == "Read alerts failed"
ErrWrite == "Write alerts failed"

\* The outcomes of the fs calls of initAlertsFile: mkdirSync, writeFileSync and
\* readFileSync of the try block, mkdirSync and writeFileSync of the catch block
InitIO == [mk : BOOLEAN, wr : BOOLEAN, rd : BOOLEAN, mk2 : BOOLEAN, wr2 : BOOLEAN]

initAlertsFile_noArrayCheck(f, io) ==
  LET Recover(g, log0) ==
        LET log1 == log0 \cup {ErrInit}
            g1 == IF g.kind = "nodir" THEN Absent ELSE g
        IN  IF g.kind = "nodir" /\ ~io.mk2
              THEN [file |-> g, log |-> log1 \cup {ErrRecover}]
            ELSE IF ~io.wr2
              THEN [file |-> g1, log |-> log1 \cup {ErrRecover}]
            ELSE [file |-> JSONstringify(JsonArray(<<>>)), log |-> log1]
      f1 == IF f.kind = "nodir" THEN Absent ELSE f
      parsed == JSONparse(f1)
  IN  IF f.kind = "nodir" /\ ~io.mk THEN Recover(f, {})
      ELSE IF f1.kind = "absent"
        THEN IF io.wr
               THEN [file |-> JSONstringify(JsonArray(<<>>)), log |-> {}]
               ELSE Recover(f1, {})
      ELSE IF ~io.rd THEN Recover(f1, {})
      ELSE IF ~parsed.ok THEN Recover(f1, {})
      ELSE IF FALSE
        THEN IF io.wr
               THEN [file |-> JSONstringify(JsonArray(<<>>)),
                     log |-> {WarnNotArray}]
               ELSE Recover(f1, {WarnNotArray})
      ELSE [file |-> f1, log |-> {}]

initAlertsFile(f, io) ==
  LET Recover(g, log0) ==
        LET log1 == log0 \cup {ErrInit}
            g1 == IF g.kind = "nodir" THEN Absent ELSE g
        IN  IF g.kind = "nodir" /\ ~io.mk2
              THEN [file |-> g, log |-> log1 \cup {ErrRecover}]
            ELSE IF ~io.wr2
              THEN [file |-> g1, log |-> log1 \cup {ErrRecover}]
            ELSE [file |-> JSONstringify(JsonArray(<<>>)), log |-> log1]
      f1 == IF f.kind = "nodir" THEN Absent ELSE f
      parsed == JSONparse(f1)
  IN  IF f.kind = "nodir" /\ ~io.mk THEN Recover(f, {})
      ELSE IF f1.kind = "absent"
        THEN IF io.wr
               THEN [file |-> JSONstringify(JsonArray(<<>>)), log |-> {}]
               ELSE Recover(f1, {})
      ELSE IF ~io.rd THEN Recover(f1, {})
      ELSE IF ~parsed.ok THEN Recover(f1, {})
      ELSE IF ~parsed.value.isArray
        THEN IF io.wr
               THEN [file |-> JSONstringify(JsonArray(<<>>)),
                     log |-> {WarnNotArray}]
               ELSE Recover(f1, {WarnNotArray})
      ELSE [file |-> f1, log |-> {}]

readAlertsSafe_noFallback(f, rdOk) ==
  LET parsed == JSONparse(f)
  IN  IF rdOk /\ f.kind \notin {"nodir", "absent"} /\ parsed.ok
        THEN [value |-> parsed.value, log |-> {}]
        ELSE [value |-> JsonOther, log |-> {ErrRead}]

readAlertsSafe(f, rdOk) ==
  LET parsed == JSONparse(f)
  IN  IF rdOk /\ f.kind \notin {"nodir", "absent"} /\ parsed.ok
        THEN [value |-> parsed.value, log |-> {}]
        ELSE [value |-> JsonArray(<<>>), log |-> {ErrRead}]

writeAlertsSafe_alwaysTrue(f, alerts, wrOk) ==
  IF wrOk /\ f.kind # "nodir"
    THEN [ok |-> TRUE, file |-> JSONstringify(alerts), log |-> {}]
    ELSE [ok |-> TRUE, file |-> f, log |-> {ErrWrite}]

writeAlertsSafe(f, alerts, wrOk) ==
  IF wrOk /\ f.kind # "nodir"
    THEN [ok |-> TRUE, file |-> JSONstringify(alerts), log |-> {}]
    ELSE [ok |-> FALSE, file |-> f, log |-> {ErrWrite}]

NoResponse ==
  [op |-> "none", ip |-> "", status |-> 0, msg |-> "", data |-> JsonOther,
   log |-> {}]

----------------------------------------------------------------------------
(* Requests *)

allowedSeverities == {Str("LOW"), Str("MEDIUM"), Str("HIGH")}

Alert(type, message, severity, time) ==
  [type |-> type, message |-> message, severity |-> severity, time |-> time]

\* what the file may hold before the first start
OldAlert == Alert(Str("login"), Str("old"), Str("LOW"), Str("2024-01-01"))
Junk == Alert(Undef, Undef, Undef, Undef)
BootFiles ==
  {NoDir, Absent, Garbage, JsonOther, JsonArray(<<>>), JsonArray(<<OldAlert>>),
   JsonArray(<<Junk>>)}

ValidBodies ==
  {Alert(Str("port-scan"), Str("5 ports probed"), Str("HIGH"), Undef),
   Alert(Str(""), Str(""), Str("LOW"), Str("1999-01-01"))}
InvalidBodies ==
  {Alert(Undef, Undef, Undef, Undef),
   Alert(Str("port-scan"), Str("5 ports probed"), Str("high"), Undef),
   Alert(Str("port-scan"), Str("5 ports probed"), Num("2"), Undef),
   Alert(Num("7"), Str("5 ports probed"), Str("HIGH"), Undef),
   Alert(Str("port-scan"), Undef, Str("MEDIUM"), Undef)}
Bodies == ValidBodies \cup InvalidBodies

validAlert_noMessage(alert) ==
  ~ (\/ TypeOf(alert.type) # "string"
     \/ alert.severity \notin allowedSeverities)

validAlert_noSeverity(alert) ==
  ~ (\/ TypeOf(alert.type) # "string"
     \/ TypeOf(alert.message) # "string")

\* the condition of the if of the handler, negated
validAlert(alert) ==
  ~ (\/ TypeOf(alert.type) # "string"
     \/ TypeOf(alert.message) # "string"
     \/ alert.severity \notin allowedSeverities)

Reply(ip, status, msg, log) ==
  [op |-> "POST", ip |-> ip, status |-> status, msg |-> msg,
   data |-> JsonOther, log |-> log]

alertHandler_noStamp(f, t, ip, body, rdOk, wrOk) ==
  LET alert == body
      rd == readAlertsSafe(f, rdOk)
      existing == JsonArray(Append(rd.value.items, alert))
      wr == writeAlertsSafe(f, existing, wrOk)
  IN  IF ~validAlert(body)
        THEN [file |-> f,
              res |-> Reply(ip, 400, "Invalid alert format or severity", {})]
      ELSE IF ~rd.value.isArray
        THEN [file |-> f, res |-> Reply(ip, 500, "TypeError", rd.log)]
      ELSE IF ~wr.ok
        THEN [file |-> wr.file,
              res |-> Reply(ip, 500, "Failed to save alert", rd.log \cup wr.log)]
      ELSE [file |-> wr.file, res |-> Reply(ip, 200, "alert saved", rd.log)]

alertHandler_keepClientTime(f, t, ip, body, rdOk, wrOk) ==
  alertHandler_noStamp(f, t, ip,
                       IF body.time = Undef
                         THEN [body EXCEPT !.time = toISOString(t)]
                         ELSE body,
                       rdOk, wrOk)

\* the handler of POST /api/alert, reached through next()
alertHandler(f, t, ip, body, rdOk, wrOk) ==
  LET alert == [body EXCEPT !.time = toISOString(t)]
      rd == readAlertsSafe(f, rdOk)
      existing == JsonArray(Append(rd.value.items, alert))
      wr == writeAlertsSafe(f, existing, wrOk)
  IN  IF ~validAlert(body)
        THEN [file |-> f,
              res |-> Reply(ip, 400, "Invalid alert format or severity", {})]
      ELSE IF ~rd.value.isArray
        \* existing.push is not a function: the TypeError goes to Express
        THEN [file |-> f, res |-> Reply(ip, 500, "TypeError", rd.log)]
      ELSE IF ~wr.ok
        THEN [file |-> wr.file,
              res |-> Reply(ip, 500, "Failed to save alert", rd.log \cup wr.log)]
      ELSE [file |-> wr.file, res |-> Reply(ip, 200, "alert saved", rd.log)]

postAlert_noReturn(m, f, t, ip, body, rdOk, wrOk) ==
  LET r == rateLimiter(m, ip, t)
      h == alertHandler(f, t, ip, body, rdOk, wrOk)
  IN  IF ~r.allowed
        THEN [map |-> r.map, file |-> h.file,
              res |-> Reply(ip, 429, "Too many requests. Please slow down.", {})]
        ELSE [map |-> r.map, file |-> h.file, res |-> h.res]

postAlert_validateFirst(m, f, t, ip, body, rdOk, wrOk) ==
  LET r == rateLimiter(m, ip, t)
  IN  IF ~validAlert(body)
        THEN [map |-> m, file |-> f,
              res |-> Reply(ip, 400, "Invalid alert format or severity", {})]
      ELSE IF ~r.allowed
        THEN [map |-> r.map, file |-> f,
              res |-> Reply(ip, 429, "Too many requests", {})]
      ELSE LET h == alertHandler(f, t, ip, body, rdOk, wrOk)
           IN  [map |-> r.map, file |-> h.file, res |-> h.res]

\* POST /api/alert: the middleware rateLimiter, then the handler
postAlert(m, f, t, ip, body, rdOk, wrOk) ==
  LET r == rateLimiter(m, ip, t)
      h == alertHandler(f, t, ip, body, rdOk, wrOk)
  IN  IF ~r.allowed
        THEN [map |-> r.map, file |-> f,
              res |-> Reply(ip, 429, "Too many requests. Please slow down.", {})]
        ELSE [map |-> r.map, file |-> h.file, res |-> h.res]

\* GET /api/alerts
getAlerts(f, rdOk) ==
  LET rd == readAlertsSafe(f, rdOk)
  IN  [op |-> "GET", ip |-> "", status |-> 200, msg |-> "", data |-> rd.value,
       log |-> rd.log]

----------------------------------------------------------------------------
(* The rate limiter on its own: requests of two clients, the clock *)

\* the server processes that share data/alerts.json, and a process that is
\* not between its read and its write
Workers == {1, 2}
Idle == [stage |-> "idle", ip |-> "", alert |-> Junk, existing |-> JsonOther,
         log |-> {}, raced |-> FALSE]
NoRequests == [p \in Workers |-> Idle]

NoAdmits == [t \in Times |-> 0]

InitRL ==
  /\ now = 0
  /\ rateLimitMap = <<>>
  /\ file = JsonArray(<<>>)
  /\ pc = "listening"
  /\ initLog = {}
  /\ res = NoResponse
  /\ watched \in Identities
  /\ admitLog = NoAdmits
  /\ rateLimitMap2 = <<>>
  /\ res2 = NoResponse
  /\ inflight = NoRequests

Tick(d, maxTicks) ==
  /\ pc = "listening"
  /\ now \div RATE_LIMIT_WINDOW_MS < maxTicks
  /\ now' = now + d
  /\ admitLog' = [t \in Times |->
                    IF now' - t <= RATE_LIMIT_WINDOW_MS THEN admitLog[t] ELSE 0]
  /\ UNCHANGED <<rateLimitMap, file, pc, initLog, res, watched,
                 rateLimitMap2, res2, inflight>>

\* what the call did besides taking its branch, kept with the answer: the
\* sweep deleted the caller's own entry, the sweep deleted an entry of another
\* identity, the call follows a denial of the same identity
Trail(ip) ==
  LET gone == DOMAIN rateLimitMap \ DOMAIN cleanupRateLimitMap(rateLimitMap, now)
  IN  (IF hashIp(ip) \in gone THEN {"sweep:own"} ELSE {})
        \cup (IF gone \ {hashIp(ip)} # {} THEN {"sweep:other"} ELSE {})
        \cup (IF res.op = "admit" /\ res.ip = ip /\ res.status = 429
                THEN {"after-deny"} ELSE {})

Admit(ip) ==
  \E r \in {rateLimiter(rateLimitMap, ip, now)} :
      /\ rateLimitMap' = r.map
      /\ res' = [op |-> "admit", ip |-> ip,
                 status |-> IF r.allowed THEN 0 ELSE 429, msg |-> "",
                 data |-> JsonOther, log |-> {r.branch} \cup Trail(ip)]
      /\ admitLog' = IF ip = watched /\ r.allowed
                       THEN [admitLog EXCEPT ![now] = @ + 1]
                       ELSE admitLog
      /\ UNCHANGED <<now, file, pc, initLog, watched,
                     rateLimitMap2, res2, inflight>>

NextRL ==
  \/ \E d \in ClockSteps : Tick(d, MaxTicks)
  \/ \E ip \in Identities : Admit(ip)

SpecRL == InitRL /\ [][NextRL]_vars

----------------------------------------------------------------------------
(* The service: start-up, submissions, retrievals, the clock *)

Clients == {"10.0.0.1"}
ServiceClockSteps == {RATE_LIMIT_WINDOW_MS + 1}

Init ==
  /\ now = 0
  /\ rateLimitMap = <<>>
  /\ file \in BootFiles
  /\ pc = "start"
  /\ initLog = {}
  /\ res = NoResponse
  /\ watched = "10.0.0.1"
  /\ admitLog = NoAdmits
  /\ rateLimitMap2 = <<>>
  /\ res2 = NoResponse
  /\ inflight = NoRequests

Boot(io) ==
  /\ pc = "start"
  /\ \E r \in {initAlertsFile(file, io)} :
       file' = r.file /\ initLog' = r.log
  /\ pc' = "listening"
  /\ UNCHANGED <<now, rateLimitMap, res, watched, admitLog,
                 rateLimitMap2, res2, inflight>>

Post(ip, body, rdOk, wrOk) ==
  /\ pc = "listening"
  /\ body \in ValidBodies => Len(file.items) < MaxAlerts
  /\ \E r \in {postAlert(rateLimitMap, file, now, ip, body, rdOk, wrOk)} :
       rateLimitMap' = r.map /\ file' = r.file /\ res' = r.res
  /\ UNCHANGED <<now, pc, initLog, watched, admitLog,
                 rateLimitMap2, res2, inflight>>

Get_rateLimited(rdOk) ==
  /\ pc = "listening"
  /\ \E ip \in Clients : \E r \in {rateLimiter(rateLimitMap, ip, now)} :
       /\ rateLimitMap' = r.map
       /\ res' = IF r.allowed
                   THEN getAlerts(file, rdOk)
                   ELSE [op |-> "GET", ip |-> ip, status |-> 429,
                         msg |-> "Too many requests", data |-> JsonOther,
                         log |-> {}]
  /\ UNCHANGED <<now, file, pc, initLog, watched, admitLog,
                 rateLimitMap2, res2, inflight>>

Get(rdOk) ==
  /\ pc = "listening"
  /\ res' = getAlerts(file, rdOk)
  /\ UNCHANGED <<now, rateLimitMap, file, pc, initLog, watched, admitLog,
                 rateLimitMap2, res2, inflight>>

Next ==
  \/ \E io \in InitIO : Boot(io)
  \/ \E ip \in Clients, body \in ValidBodies, rdOk \in BOOLEAN, wrOk \in BOOLEAN :
       Post(ip, body, rdOk, wrOk)
  \/ \E ip \in Clients, body \in InvalidBodies : Post(ip, body, TRUE, TRUE)
  \/ \E rdOk \in BOOLEAN : Get(rdOk)
  \/ \E d \in ServiceClockSteps : Tick(d, MaxServiceTicks)

Spec == Init /\ [][Next]_vars

----------------------------------------------------------------------------
(* Claims about the rate limiter, under SpecRL *)

RECURSIVE SumOver(_, _)
SumOver(f, S) ==
  IF S = {} THEN 0
  ELSE LET x == CHOOSE y \in S : TRUE IN f[x] + SumOver(f, S \ {x})

\* requests of `watched` let through at a time in [from, now]
AllowedSince(from) == SumOver(admitLog, {t \in Times : t >= from})

\* requests of `watched` let through in the last RATE_LIMIT_WINDOW_MS,
\* that is at a time in [now - RATE_LIMIT_WINDOW_MS, now]
AllowedInLastWindow == SumOver(admitLog, Times)

WatchedKey == hashIp(watched)

\* C1: once MAX_REQUESTS_PER_WINDOW requests of an identity were let through
\* in the window its first request opened, a further request at a time t with
\* t - start <= RATE_LIMIT_WINDOW_MS (start + 60000 included) is denied; a
\* request at a time t with t - start > RATE_LIMIT_WINDOW_MS is let through and
\* leaves the entry {count: 1, start: t}.
C1_WindowLimit ==
  [][ (Admit(watched) /\ WatchedKey \in DOMAIN rateLimitMap) =>
        LET start == rateLimitMap[WatchedKey].start
        IN  /\ (now - start <= RATE_LIMIT_WINDOW_MS
                  /\ AllowedSince(start) >= MAX_REQUESTS_PER_WINDOW)
                 => (res'.status = 429 /\ admitLog' = admitLog)
            /\ (now - start > RATE_LIMIT_WINDOW_MS)
                 => /\ res'.status = 0
                    /\ rateLimitMap'[WatchedKey] = [count |-> 1, start |-> now]
    ]_vars

\* a request was denied at exactly start + RATE_LIMIT_WINDOW_MS, after 20
\* requests were let through in the window
C1_Witness ==
  /\ res.op = "admit" /\ res.ip = watched /\ res.status = 429
  /\ WatchedKey \in DOMAIN rateLimitMap
  /\ now - rateLimitMap[WatchedKey].start = RATE_LIMIT_WINDOW_MS
  /\ AllowedSince(rateLimitMap[WatchedKey].start) = MAX_REQUESTS_PER_WINDOW

\* C2 as stated: in every time interval of length RATE_LIMIT_WINDOW_MS at most
\* MAX_REQUESTS_PER_WINDOW requests of an identity are let through. (Every such
\* interval is inside the last RATE_LIMIT_WINDOW_MS of the moment of its last
\* admission.)
C2_SlidingWindow == AllowedInLastWindow <= MAX_REQUESTS_PER_WINDOW

\* C2 amended: at most MAX_REQUESTS_PER_WINDOW requests of an identity are let
\* through in one window [start, start + RATE_LIMIT_WINDOW_MS] of its entry, and
\* at most 2 * MAX_REQUESTS_PER_WINDOW - 1 in any time interval of length
\* RATE_LIMIT_WINDOW_MS.
C2_FixedWindow ==
  /\ (WatchedKey \in DOMAIN rateLimitMap
        /\ now - rateLimitMap[WatchedKey].start <= RATE_LIMIT_WINDOW_MS)
       => AllowedSince(rateLimitMap[WatchedKey].start) <= MAX_REQUESTS_PER_WINDOW
  /\ AllowedInLastWindow <= 2 * MAX_REQUESTS_PER_WINDOW - 1

\* 19 requests at the end of one window and 20 at the start of the next
C2_Witness == AllowedInLastWindow = 2 * MAX_REQUESTS_PER_WINDOW - 1

----------------------------------------------------------------------------
(* Claims about the service, under Spec *)

\* the stored alert collection: what the file holds when it holds an array
Collection(f) == IF f.kind = "json" /\ f.isArray THEN f.items ELSE <<>>

Last(q) == q[Len(q)]

\* admit() denies: a live entry that has used up its window
Denied(ip) ==
  /\ hashIp(ip) \in DOMAIN rateLimitMap
  /\ now - rateLimitMap[hashIp(ip)].start <= RATE_LIMIT_WINDOW_MS
  /\ rateLimitMap[hashIp(ip)].count >= MAX_REQUESTS_PER_WINDOW

\* the body breaks the input rule of POST /api/alert
Malformed(body) ==
  \/ body.severity \notin {Str("LOW"), Str("MEDIUM"), Str("HIGH")}
  \/ TypeOf(body.type) # "string"
  \/ TypeOf(body.message) # "string"

Stamped(body) == [body EXCEPT !.time = toISOString(now)]

\* C3: a submission the rate limiter denies is answered 429 and leaves the
\* file as it was, whatever its body and whatever the fs calls would answer;
\* no read and no write is attempted (none is logged as failed).
C3_DeniedNoStore ==
  [][ \A ip \in Clients :
        Denied(ip) =>
          \A body \in Bodies, rdOk \in BOOLEAN, wrOk \in BOOLEAN :
            Post(ip, body, rdOk, wrOk)
              => (res'.status = 429 /\ file' = file /\ res'.log = {})
    ]_vars

\* a submission was denied while the store held a record
C3_Witness ==
  /\ res.op = "POST" /\ res.status = 429
  /\ Len(Collection(file)) >= 1

\* C4: a submission that is let through and whose severity is not LOW, MEDIUM
\* or HIGH, or whose type or message is not a string (absent fields included),
\* is answered 400 and leaves the file as it was. (Stated the other way
\* round: a step that does not end with 400 and the file as it was is not such
\* a submission.)
C4_InvalidInput ==
  [][ (res'.status = 400 /\ file' = file)
      \/ \A ip \in Clients :
           ~Denied(ip) =>
             \A body \in Bodies :
               Malformed(body) => ~Post(ip, body, TRUE, TRUE)
    ]_vars

\* a submission was answered 400 while the store held a record
C4_Witness ==
  /\ res.op = "POST" /\ res.status = 400
  /\ Len(Collection(file)) >= 1

\* C5: with the store initialized (initAlertsFile() did not fail beyond
\* recovery), after a valid submission that is let through and answered 200 the
\* collection is the collection of before followed by the submitted record
\* (type, message and severity as submitted), so a run of such submissions
\* leaves the earlier records followed by the submitted ones in order.
C5_AppendInOrder ==
  [][ \A ip \in Clients, body \in ValidBodies, rdOk \in BOOLEAN, wrOk \in BOOLEAN :
        (res'.op = "POST" /\ res'.status = 200 /\ ErrRecover \notin initLog
           /\ Post(ip, body, rdOk, wrOk))
          => Collection(file') = Append(Collection(file), Stamped(body))
    ]_vars

\* C6: once initAlertsFile() has run (and did not fail beyond recovery) the
\* collection is append-only, read and write failures included: a step
\* changes it only if it is a submission answered 200, and then the new
\* collection is the old one with one record added at the end.
C6_AppendOnly ==
  [][ (pc = "listening" /\ ErrRecover \notin initLog) =>
        \/ Collection(file') = Collection(file)
        \/ /\ res'.op = "POST" /\ res'.status = 200
           /\ Len(Collection(file')) = Len(Collection(file)) + 1
           /\ SubSeq(Collection(file'), 1, Len(Collection(file))) = Collection(file)
    ]_vars

\* C7 as stated: the record a submission stores has a severity of the enum and
\* a type and a message that are non-empty strings. (Right after a submission
\* answered 200 the record it stored is the last one of the collection.)
C7_NonEmptyStrings ==
  (res.op = "POST" /\ res.status = 200)
    => /\ Collection(file) # <<>>
       /\ Last(Collection(file)).severity \in
            {Str("LOW"), Str("MEDIUM"), Str("HIGH")}
       /\ TypeOf(Last(Collection(file)).type) = "string"
       /\ TypeOf(Last(Collection(file)).message) = "string"
       /\ Last(Collection(file)).type # Str("")
       /\ Last(Collection(file)).message # Str("")

\* C7 amended: the record a submission stores has a severity of the enum and a
\* type and a message that are strings (the empty string included).
C7_Strings ==
  (res.op = "POST" /\ res.status = 200)
    => /\ Collection(file) # <<>>
       /\ Last(Collection(file)).severity \in
            {Str("LOW"), Str("MEDIUM"), Str("HIGH")}
       /\ TypeOf(Last(Collection(file)).type) = "string"
       /\ TypeOf(Last(Collection(file)).message) = "string"

\* a record with an empty type and an empty message was stored
C7_Witness ==
  /\ res.op = "POST" /\ res.status = 200
  /\ Collection(file) # <<>>
  /\ Last(Collection(file)).type = Str("")
  /\ Last(Collection(file)).message = Str("")

\* C8: a valid submission that is let through is answered 500 or 200 and
\* nothing else. When the write fails the answer is 500; with 500 the file is
\* as it was; with 200 the write succeeded and the record is the last one of
\* the stored collection. The file is written at most once.
C8_WriteDecides ==
  [][ \A ip \in Clients :
       (~Denied(ip) /\ res'.op = "POST") =>
        \A body \in ValidBodies, rdOk \in BOOLEAN, wrOk \in BOOLEAN :
         Post(ip, body, rdOk, wrOk)
          => /\ res'.status \in {200, 500}
             /\ (~wrOk \/ file.kind = "nodir" \/ ErrWrite \in res'.log)
                  => res'.status = 500
             /\ res'.status = 500 => file' = file
             /\ res'.status = 200
                  => /\ wrOk
                     /\ Collection(file') # <<>>
                     /\ Last(Collection(file')) = Stamped(body)
                     /\ file'.kind = "json" /\ file'.isArray
             /\ (wrOk /\ file.kind # "nodir" /\ (file.isArray \/ file.kind # "json" \/ ~rdOk))
                  => res'.status = 200
    ]_vars

\* a write failed: 500, and the record stored before is still the only one
C8_Witness ==
  /\ res.op = "POST" /\ res.status = 500 /\ ErrWrite \in res.log
  /\ Len(Collection(file)) = 1

\* C9: when the file is absent, is not JSON or is JSON but not an array, then
\* after initAlertsFile() (its last-resort rewrite not failing) readAlertsSafe()
\* yields the empty array; and a valid submission that finds the empty array,
\* with its read and its write working, is answered 200 and leaves an array
\* of one element.
C9_Recovery ==
  [][ /\ \A io \in InitIO :
           (pc = "start" /\ file \in {NoDir, Absent, Garbage, JsonOther}
              /\ ErrRecover \notin initLog' /\ Boot(io))
             => readAlertsSafe(file', TRUE).value = JsonArray(<<>>)
      /\ \A ip \in Clients, body \in ValidBodies :
           (~Denied(ip) /\ file.kind = "json" /\ res'.op = "POST"
              /\ readAlertsSafe(file, TRUE).value = JsonArray(<<>>)
              /\ Post(ip, body, TRUE, TRUE))
             => /\ res'.status = 200
                /\ Len(readAlertsSafe(file', TRUE).value.items) = 1
    ]_vars

\* a file that held JSON but no array was reset and then took one record
C9_Witness ==
  /\ pc = "listening" /\ initLog = {WarnNotArray}
  /\ res.op = "POST" /\ res.status = 200
  /\ Len(readAlertsSafe(file, TRUE).value.items) = 1

WellFormed(e) ==
  /\ TypeOf(e.type) = "string"
  /\ TypeOf(e.message) = "string"
  /\ e.severity \in {Str("LOW"), Str("MEDIUM"), Str("HIGH")}
  /\ TypeOf(e.time) = "string"

Elements(q) == {q[i] : i \in 1..Len(q)}

\* C10 as stated: once initAlertsFile() has completed without a failure it
\* could not recover from, the file holds an array and every element of it is
\* a well-formed alert record, whatever the file held before.
C10_WellFormedAlways ==
  (pc = "listening" /\ ErrRecover \notin initLog)
    => /\ file.kind = "json" /\ file.isArray
       /\ \A e \in Elements(file.items) : WellFormed(e)

\* C10 amended: once initAlertsFile() has completed without a failure it could
\* not recover from, the file holds an array, and every element of it is a
\* well-formed alert record or an element the file held already (before the
\* start, or before the request): what a submission adds is well-formed, what
\* the file held at the start is kept as it is.
C10_ArrayOfKeptOrWellFormed ==
  [][ (pc' = "listening" /\ ErrRecover \notin initLog')
        => /\ file'.kind = "json" /\ file'.isArray
           /\ \A e \in Elements(file'.items) :
                WellFormed(e) \/ e \in Elements(file.items)
    ]_vars

\* an element that is no alert record survived the start, and a submission
\* added a record behind it
C10_Witness ==
  /\ pc = "listening" /\ ErrRecover \notin initLog
  /\ Len(file.items) = 2
  /\ ~WellFormed(file.items[1]) /\ WellFormed(file.items[2])
  /\ res.op = "POST" /\ res.status = 200

\* C11 as stated: GET /api/alerts never surfaces a storage fault: when the
\* read or the parse fails it answers 200 with the empty array, and in every
\* case what it answers is an array of alert records.
C11_AlwaysRecords ==
  res.op = "GET"
    => /\ res.status = 200
       /\ ErrRead \in res.log => res.data = JsonArray(<<>>)
       /\ res.data.isArray
       /\ \A e \in Elements(res.data.items) : WellFormed(e)

\* C11 amended: GET /api/alerts never surfaces a storage fault: when the read
\* fails or the text is not JSON it answers 200 with the empty array; otherwise
\* it answers 200 with the parsed content of the file as it is. That is an
\* array when initAlertsFile() did not fail beyond recovery; its elements are
\* those of the file, alert records or not.
C11_NoFaultSurfaced ==
  [][ \A rdOk \in BOOLEAN :
        Get(rdOk) =>
          /\ res'.status = 200
          /\ (~rdOk \/ file.kind # "json")
               => (res'.data = JsonArray(<<>>) /\ ErrRead \in res'.log)
          /\ (rdOk /\ file.kind = "json")
               => /\ res'.data.isArray = file.isArray
                  /\ res'.data.items = file.items
                  /\ res'.log = {}
          /\ ErrRecover \notin initLog => res'.data.isArray
    ]_vars

\* a read failed while the file held a record: 200 and the empty array
C11_Witness ==
  /\ res.op = "GET" /\ res.status = 200
  /\ ErrRead \in res.log /\ res.data = JsonArray(<<>>)
  /\ Len(Collection(file)) >= 1

\* C12 as stated: GET /api/alerts is a pure read: it changes neither the file
\* nor rateLimitMap, is never answered 429, and two calls with no write in
\* between answer with equal arrays. (Between two consecutive GET answers no
\* POST was handled: a POST would have replaced res.)
C12_RepeatableRead ==
  [][ \A rdOk \in BOOLEAN :
        Get(rdOk) =>
          /\ file' = file /\ rateLimitMap' = rateLimitMap
          /\ res'.status # 429
          /\ res.op = "GET" => res'.data = res.data
    ]_vars

\* C12 amended: GET /api/alerts is a pure read: it changes neither the file nor
\* rateLimitMap and is always answered 200, never 429, whatever the count of
\* the caller's entry; two calls with no write in between whose reads both
\* succeed answer with equal arrays (a call whose read fails answers [], which
\* differs from the answer of a call whose read succeeds on a non-empty file).
C12_PureRead ==
  [][ \A rdOk \in BOOLEAN :
        Get(rdOk) =>
          /\ file' = file /\ rateLimitMap' = rateLimitMap
          /\ res'.status = 200
          /\ (res.op = "GET" /\ ErrRead \notin res.log /\ ErrRead \notin res'.log)
               => res'.data = res.data
    ]_vars

\* a GET was answered 200 with the stored record while the client's entry is
\* at the limit (its next POST is denied)
C12_Witness ==
  /\ res.op = "GET" /\ res.status = 200
  /\ \E ip \in Clients : Denied(ip)
  /\ Len(Collection(file)) >= 1
  /\ res.data = JsonArray(Collection(file))

\* the instants of this run's clock whose toISOString() is v; empty for a
\* time that no submission of this run was given (a record the file held
\* before start-up, a value a client sent)
InstantsOf(v) == {t \in Times : toISOString(t) = v}

\* the records whose time is a clock value of this run are in clock order
StampsInOrder(q) ==
  \A i \in 1..Len(q), j \in 1..Len(q) :
    i < j => \A ti \in InstantsOf(q[i].time), tj \in InstantsOf(q[j].time) :
               ti <= tj

\* C13: the time of a record that a submission persists is the server clock
\* at the handling of that submission, new Date().toISOString(), also when the
\* body carried a time of its own; the clock never going back, the records
\* stored by submissions are in non-decreasing order of time in the file.
C13_ServerTime ==
  [][ (res'.op = "POST" /\ res'.status = 200 /\ now' = now) =>
        /\ Len(Collection(file')) >= 1
        /\ Last(Collection(file')).time = toISOString(now)
        /\ InstantsOf(Last(Collection(file')).time) = {now}
        /\ StampsInOrder(Collection(file'))
    ]_vars

\* the body that carried time "1999-01-01" was stored second, with the clock
\* value of its handling, behind a record stored at an earlier clock value
C13_Witness ==
  /\ res.op = "POST" /\ res.status = 200
  /\ Len(Collection(file)) = 2
  /\ Last(Collection(file)).type = Str("")
  /\ Last(Collection(file)).time = toISOString(now)
  /\ \E t \in Times : t < now /\ Collection(file)[1].time = toISOString(t)

\* the entry of ip after a request at `now` that the rate limiter lets through
Consumed(ip) ==
  IF /\ hashIp(ip) \in DOMAIN rateLimitMap
     /\ now - rateLimitMap[hashIp(ip)].start <= RATE_LIMIT_WINDOW_MS
    THEN [rateLimitMap[hashIp(ip)] EXCEPT !.count = @ + 1]
    ELSE [count |-> 1, start |-> now]

\* C14: the rate limiter comes before validation and before the store in
\* every POST /api/alert: a POST that is not denied uses one unit of the
\* identity's window also when it is then answered 400 or 500, and an identity
\* at its limit is answered 429, not 400, for an invalid body too. (A step
\* that leaves the clock and ends with a POST answer is a POST of res'.ip.)
C14_GateFirst ==
  [][ (res'.op = "POST" /\ now' = now) =>
        IF Denied(res'.ip)
          THEN /\ res'.status = 429
               /\ hashIp(res'.ip) \in DOMAIN rateLimitMap'
               /\ rateLimitMap'[hashIp(res'.ip)] = rateLimitMap[hashIp(res'.ip)]
          ELSE /\ res'.status \in {200, 400, 500}
               /\ hashIp(res'.ip) \in DOMAIN rateLimitMap'
               /\ rateLimitMap'[hashIp(res'.ip)] = Consumed(res'.ip)
    ]_vars

\* a POST answered 400 used the last unit of the window
C14_Witness ==
  /\ res.op = "POST" /\ res.status = 400
  /\ hashIp(res.ip) \in DOMAIN rateLimitMap
  /\ rateLimitMap[hashIp(res.ip)].count = MAX_REQUESTS_PER_WINDOW
  /\ Collection(file) = <<>>

----------------------------------------------------------------------------
(* Further claims about the rate limiter, under SpecRL. A step of SpecRL that
   leaves the clock is a rateLimiter call of res'.ip. *)

\* C15: a denied rateLimiter call leaves the identity's entry as it was:
\* neither count nor start changes, so a denied request neither extends nor
\* restarts the window.
C15_DeniedKeepsEntry ==
  [][ (now' = now /\ res'.op = "admit" /\ res'.status = 429) =>
        /\ hashIp(res'.ip) \in DOMAIN rateLimitMap
        /\ hashIp(res'.ip) \in DOMAIN rateLimitMap'
        /\ rateLimitMap'[hashIp(res'.ip)] = rateLimitMap[hashIp(res'.ip)]
    ]_vars

\* a second denial in a row, later than the start of the window, with the
\* entry still at 20 and at its start
C15_Witness ==
  /\ res.op = "admit" /\ res.status = 429 /\ "after-deny" \in res.log
  /\ hashIp(res.ip) \in DOMAIN rateLimitMap
  /\ rateLimitMap[hashIp(res.ip)].count = MAX_REQUESTS_PER_WINDOW
  /\ rateLimitMap[hashIp(res.ip)].start < now

\* C16: no permanent lockout. A request is denied only while the identity's
\* entry is live (now - start <= RATE_LIMIT_WINDOW_MS) and at the limit; the
\* first request of an identity later than start + RATE_LIMIT_WINDOW_MS, start
\* being that of the window in which it was denied, is let through and opens
\* {count: 1, start: now}, whatever was denied in between (C15: denials leave
\* start where it was).
C16_NoLockout ==
  [][ (now' = now /\ res'.op = "admit") =>
        LET key == hashIp(res'.ip)
        IN  /\ res'.status = 429
                 => /\ key \in DOMAIN rateLimitMap
                    /\ now - rateLimitMap[key].start <= RATE_LIMIT_WINDOW_MS
                    /\ rateLimitMap[key].count >= MAX_REQUESTS_PER_WINDOW
            /\ (key \in DOMAIN rateLimitMap
                  /\ now - rateLimitMap[key].start > RATE_LIMIT_WINDOW_MS)
                 => /\ res'.status = 0
                    /\ key \in DOMAIN rateLimitMap'
                    /\ rateLimitMap'[key] = [count |-> 1, start |-> now]
    ]_vars

\* an identity whose last request was denied came back after its window had
\* run out and was let through, with a new window
C16_Witness ==
  /\ res.op = "admit" /\ res.status = 0
  /\ {"after-deny", "sweep:own"} \subseteq res.log
  /\ hashIp(res.ip) \in DOMAIN rateLimitMap
  /\ rateLimitMap[hashIp(res.ip)] = [count |-> 1, start |-> now]

\* C17: the sweep runs in every rateLimiter call, let through or denied, and
\* deletes exactly the entries with now - start > RATE_LIMIT_WINDOW_MS: right
\* after a call at `now` every entry has now - start <= RATE_LIMIT_WINDOW_MS
\* and 1 <= count <= MAX_REQUESTS_PER_WINDOW, the stale entries of the other
\* identities are gone and their live entries are as they were.
C17_SweepInvariant ==
  [][ (now' = now /\ res'.op = "admit") =>
        LET key == hashIp(res'.ip)
        IN  /\ DOMAIN rateLimitMap' \subseteq DOMAIN rateLimitMap \cup {key}
            /\ \A k \in DOMAIN rateLimitMap' :
                 /\ now - rateLimitMap'[k].start <= RATE_LIMIT_WINDOW_MS
                 /\ rateLimitMap'[k].count >= 1
                 /\ rateLimitMap'[k].count <= MAX_REQUESTS_PER_WINDOW
            /\ \A k \in DOMAIN rateLimitMap \ {key} :
                 IF now - rateLimitMap[k].start > RATE_LIMIT_WINDOW_MS
                   THEN k \notin DOMAIN rateLimitMap'
                   ELSE /\ k \in DOMAIN rateLimitMap'
                        /\ rateLimitMap'[k] = rateLimitMap[k]
    ]_vars

\* a denied call swept the stale entry of the other identity
C17_Witness ==
  /\ res.op = "admit" /\ res.status = 429
  /\ "sweep:other" \in res.log
  /\ DOMAIN rateLimitMap = {hashIp(res.ip)}

\* the four cases of the rate limiter, without the sweep
admitNoSweep(m, ip, t) ==
  LET key == hashIp(ip)
      fresh == [k \in DOMAIN m \cup {key} |->
                  IF k = key THEN [count |-> 1, start |-> t] ELSE m[k]]
  IN  IF key \notin DOMAIN m
        THEN [map |-> fresh, allowed |-> TRUE]
      ELSE IF t - m[key].start > RATE_LIMIT_WINDOW_MS
        THEN [map |-> fresh, allowed |-> TRUE]
      ELSE IF m[key].count >= MAX_REQUESTS_PER_WINDOW
        THEN [map |-> m, allowed |-> FALSE]
      ELSE [map |-> [m EXCEPT ![key].count = @ + 1], allowed |-> TRUE]

\* C18: the sweep comes before the lookup of the caller's entry, so an entry
\* of the caller that has just run out is deleted and made anew as
\* {count: 1, start: now}; every call gives the decision and the caller's
\* entry that the four cases give without a sweep, and the branch for a window
\* that has run out (index.js:103-106) is never taken.
C18_SweepEquivalent ==
  [][ (now' = now /\ res'.op = "admit") =>
        LET key == hashIp(res'.ip)
            ref == admitNoSweep(rateLimitMap, res'.ip, now)
        IN  /\ (res'.status = 0) = ref.allowed
            /\ (res'.status = 429) = ~ref.allowed
            /\ key \in DOMAIN rateLimitMap'
            /\ rateLimitMap'[key] = ref.map[key]
            /\ "reset" \notin res'.log
            /\ "sweep:own" \in res'.log
                 => /\ "new" \in res'.log
                    /\ rateLimitMap'[key] = [count |-> 1, start |-> now]
    ]_vars

\* the sweep deleted the caller's own entry, which had run out at the limit
\* or below it, and the call made it anew
C18_Witness ==
  /\ res.op = "admit" /\ res.status = 0
  /\ res.log = {"new", "sweep:own"}
  /\ rateLimitMap[hashIp(res.ip)] = [count |-> 1, start |-> now]
  /\ now > RATE_LIMIT_WINDOW_MS

----------------------------------------------------------------------------
(* Two runs of the rate limiter side by side, on the same clock: rateLimitMap
   is the table of the first run, rateLimitMap2 that of the second. The
   watched identity makes the same requests at the same times in both; the
   other identities make whatever requests they make in each run apart.
   res and res2 are the answers to the last request of the watched identity. *)

AdmitAnswer(ip, r) ==
  [op |-> "admit", ip |-> ip, status |-> IF r.allowed THEN 0 ELSE 429,
   msg |-> "", data |-> JsonOther, log |-> {r.branch}]

InitPair == InitRL

AdmitBoth ==
  \E r1 \in {rateLimiter(rateLimitMap, watched, now)},
     r2 \in {rateLimiter(rateLimitMap2, watched, now)} :
      /\ rateLimitMap' = r1.map
      /\ rateLimitMap2' = r2.map
      /\ res' = AdmitAnswer(watched, r1)
      /\ res2' = AdmitAnswer(watched, r2)
      /\ UNCHANGED <<now, file, pc, initLog, watched, admitLog, inflight>>

AdmitOther(run, ip) ==
  /\ ip # watched
  /\ IF run = 1
       THEN /\ rateLimitMap' = rateLimiter(rateLimitMap, ip, now).map
            /\ UNCHANGED rateLimitMap2
       ELSE /\ rateLimitMap2' = rateLimiter(rateLimitMap2, ip, now).map
            /\ UNCHANGED rateLimitMap
  /\ UNCHANGED <<now, file, pc, initLog, res, watched, admitLog, res2, inflight>>

NextPair ==
  \/ \E d \in ClockSteps : Tick(d, MaxPairTicks)
  \/ AdmitBoth
  \/ \E run \in {1, 2}, ip \in Identities : AdmitOther(run, ip)

SpecPair == InitPair /\ [][NextPair]_vars

\* C19: identities are throttled independently. In two runs in which an
\* identity makes the same requests at the same times and the other identities
\* make different ones, every request of that identity gets the same decision
\* in both runs and leaves the same entry for it in both tables.
C19_Independent ==
  [][ AdmitBoth =>
        /\ res'.status = res2'.status
        /\ WatchedKey \in DOMAIN rateLimitMap'
        /\ WatchedKey \in DOMAIN rateLimitMap2'
        /\ rateLimitMap'[WatchedKey] = rateLimitMap2'[WatchedKey]
    ]_vars

\* the watched identity was let through in both runs after its window had run
\* out, with the same new entry, while the other identity is at its limit in
\* the first run (and had swept the watched identity's entry there) and has
\* made no request in the second
C19_Witness ==
  /\ res.status = 0 /\ res2.status = 0
  /\ res.log = {"new"} /\ res2.log = {"new"}
  /\ now > RATE_LIMIT_WINDOW_MS
  /\ DOMAIN rateLimitMap2 = {WatchedKey}
  /\ \E k \in DOMAIN rateLimitMap \ {WatchedKey} :
       /\ rateLimitMap[k].count = MAX_REQUESTS_PER_WINDOW
       /\ rateLimitMap[k].start = now
  /\ rateLimitMap[WatchedKey] = [count |-> 1, start |-> now]
  /\ rateLimitMap2[WatchedKey] = [count |-> 1, start |-> now]

----------------------------------------------------------------------------
(* Two server processes on one data/alerts.json. Each process handles its
   requests one at a time, from rateLimiter to the response, and takes no lock
   on the file: between the readFileSync of one process and its writeFileSync
   the other process can read and write. Process 1 has rateLimitMap and res,
   process 2 has rateLimitMap2 and res2. *)

Other(p) == CHOOSE q \in Workers : q # p

\* index.js:147-149, the handler up to and with its read
alertRead(f, t, ip, body, rdOk) ==
  LET rd == readAlertsSafe(f, rdOk)
  IN  [stage |-> "read", ip |-> ip,
       alert |-> [body EXCEPT !.time = toISOString(t)],
       existing |-> rd.value, log |-> rd.log, raced |-> FALSE]

alertWrite_reread(f, req, wrOk) ==
  LET existing == JsonArray(Append(readAlertsSafe(f, TRUE).value.items, req.alert))
      wr == writeAlertsSafe(f, existing, wrOk)
  IN  IF ~wr.ok
        THEN [file |-> wr.file,
              res |-> Reply(req.ip, 500, "Failed to save alert",
                            req.log \cup wr.log)]
        ELSE [file |-> wr.file,
              res |-> Reply(req.ip, 200, "alert saved", req.log)]

\* index.js:150-157, the handler from the push on
alertWrite(f, req, wrOk) ==
  LET existing == JsonArray(Append(req.existing.items, req.alert))
      wr == writeAlertsSafe(f, existing, wrOk)
  IN  IF ~req.existing.isArray
        THEN [file |-> f, res |-> Reply(req.ip, 500, "TypeError", req.log)]
      ELSE IF ~wr.ok
        THEN [file |-> wr.file,
              res |-> Reply(req.ip, 500, "Failed to save alert",
                            req.log \cup wr.log)]
      ELSE [file |-> wr.file,
            res |-> Reply(req.ip, 200, "alert saved", req.log)]

MapOf(p) == IF p = 1 THEN rateLimitMap ELSE rateLimitMap2
AnswerOf(p) == IF p = 1 THEN res ELSE res2

\* the process has handled fewer than MaxRaceRequests requests of ip
FewRequests(p, ip) ==
  hashIp(ip) \in DOMAIN MapOf(p) => MapOf(p)[hashIp(ip)].count < MaxRaceRequests

InitRace ==
  /\ now = 0
  /\ rateLimitMap = <<>>
  /\ rateLimitMap2 = <<>>
  /\ file \in {JsonArray(<<>>), JsonArray(<<OldAlert>>)}
  /\ pc = "listening"
  /\ initLog = {}
  /\ res = NoResponse
  /\ res2 = NoResponse
  /\ watched = "10.0.0.1"
  /\ admitLog = NoAdmits
  /\ inflight = NoRequests

\* a process takes a POST /api/alert up to its read
RaceReceive(p, ip, body, rdOk) ==
  /\ inflight[p].stage # "read"
  /\ FewRequests(p, ip)
  /\ Len(file.items) < MaxAlerts
  /\ \E r \in {rateLimiter(MapOf(p), ip, now)} :
       \E early \in {IF ~r.allowed
                       THEN {Reply(ip, 429, "Too many requests. Please slow down.", {})}
                     ELSE IF ~validAlert(body)
                       THEN {Reply(ip, 400, "Invalid alert format or severity", {})}
                     ELSE {}} :
         /\ IF p = 1
              THEN /\ rateLimitMap' = r.map
                   /\ res' = IF early = {} THEN res ELSE CHOOSE x \in early : TRUE
                   /\ UNCHANGED <<rateLimitMap2, res2>>
              ELSE /\ rateLimitMap2' = r.map
                   /\ res2' = IF early = {} THEN res2 ELSE CHOOSE x \in early : TRUE
                   /\ UNCHANGED <<rateLimitMap, res>>
         /\ inflight' =
              IF early # {}
                THEN [inflight EXCEPT ![p] = Idle]
              ELSE IF inflight[Other(p)].stage = "read"
                THEN [q \in Workers |->
                        IF q = p
                          THEN [alertRead(file, now, ip, body, rdOk)
                                  EXCEPT !.raced = TRUE]
                          ELSE [inflight[q] EXCEPT !.raced = TRUE]]
              ELSE [inflight EXCEPT ![p] = alertRead(file, now, ip, body, rdOk)]
  /\ UNCHANGED <<now, file, pc, initLog, watched, admitLog>>

\* the process goes on from its read: push, write, response
RaceFinish(p, wrOk) ==
  /\ inflight[p].stage = "read"
  /\ \E h \in {alertWrite(file, inflight[p], wrOk)} :
       /\ file' = h.file
       /\ IF p = 1 THEN res' = h.res /\ UNCHANGED res2
                   ELSE res2' = h.res /\ UNCHANGED res
  /\ inflight' = [inflight EXCEPT ![p].stage = "done"]
  /\ UNCHANGED <<now, rateLimitMap, rateLimitMap2, pc, initLog, watched, admitLog>>

NextRace ==
  \/ \E p \in Workers, ip \in Clients, body \in Bodies, rdOk \in BOOLEAN :
       RaceReceive(p, ip, body, rdOk)
  \/ \E p \in Workers, wrOk \in BOOLEAN : RaceFinish(p, wrOk)

SpecRace == InitRace /\ [][NextRace]_vars

\* C20: the submission path takes no lock. A submission answered 200 has its
\* record in the file right after it, and when no other write came between its
\* read and its write every record that was there is still there; when two
\* submissions both read before either wrote and both are answered 200, the
\* file holds what they read plus the record of the one that wrote last: the
\* record of the other is missing (a lost update).
C20_LostUpdate ==
  [][ \A p \in Workers :
        (inflight[p].stage = "read" /\ inflight'[p].stage = "done"
           /\ (IF p = 1 THEN res' ELSE res2').status = 200) =>
          LET me == inflight[p]
              you == inflight[Other(p)]
          IN  /\ Len(file'.items) >= 1
              /\ Last(file'.items) = me.alert
              /\ (file.items = me.existing.items)
                   => file'.items = Append(file.items, me.alert)
              /\ (/\ me.raced /\ you.raced /\ you.stage = "done"
                  /\ AnswerOf(Other(p)).status = 200
                  /\ you.existing = me.existing)
                   => /\ file.items = Append(me.existing.items, you.alert)
                      /\ file'.items = Append(me.existing.items, me.alert)
                      /\ Len(file'.items) = Len(me.existing.items) + 1
    ]_vars

\* two submissions with different records read the empty file before either
\* wrote; both were answered 200 and the file holds one record
C20_Witness ==
  /\ \A p \in Workers :
       /\ inflight[p].stage = "done" /\ inflight[p].raced
       /\ inflight[p].existing = JsonArray(<<>>)
       /\ inflight[p].log = {}
       /\ AnswerOf(p).status = 200
  /\ inflight[1].alert # inflight[2].alert
  /\ Len(file.items) = 1

====
